---- MODULE Spec2Model ----
(***************************************************************************)
(* Multiple sequence alignment by profile/profile Needleman-Wunsch         *)
(* (alignProfiles) and simulated-annealing iterative refinement (iterate), *)
(* as implemented in src/align.py.                                         *)
(*                                                                         *)
(* Python lists are modelled as TLA+ sequences, so every index of the      *)
(* source is shifted by one (row k of the source is row k+1 here).         *)
(***************************************************************************)
EXTENDS Integers, Sequences, FiniteSets, TLC

----------------------------------------------------------------------------
(* Bounds of the model                                                     *)

\* Largest number of rows of an alignment handed to iterate.
MaxRows == 3
\* Largest number of columns of an alignment handed to iterate.
MaxCols == 2
\* Largest number of rows of a profile handed directly to alignProfiles.
MaxProfRows == 2
\* Largest number of columns of a profile handed directly to alignProfiles.
MaxProfCols == 2

----------------------------------------------------------------------------
(* Symbols and the substitution table                                      *)

GAP == "-"

\* The residues used by the model: two letters of the BLOSUM50 alphabet.
Residues == {"A", "W"}

Symbols == Residues \cup {GAP}

\* BLOSUM50 restricted to Residues: A/A = 5, W/W = 15, A/W = W/A = -3.
blosum50(a, b) ==
    IF a = "A" /\ b = "A" THEN 5
    ELSE IF a = "W" /\ b = "W" THEN 15
    ELSE -3

\* Default value of the gapPenalty parameter of scoreAlignment/scoreColumns.
DefaultGapPenalty == 8

----------------------------------------------------------------------------
(* Helpers for Python list operations                                      *)

\* F(e), with e evaluated once (the "v = e" of the source, followed by uses of v).
Bind(e, F(_)) == CHOOSE r \in {F(v) : v \in {e}} : TRUE

\* f[lo] + ... + f[hi].
RECURSIVE SumUpTo(_, _, _)
SumUpTo(f, lo, hi) == IF lo > hi THEN 0 ELSE f[hi] + SumUpTo(f, lo, hi - 1)

\* F(lo) + ... + F(hi): the "total" a for loop over range(lo, hi + 1) adds up.
SumRange(lo, hi, F(_)) == Bind([q \in lo..hi |-> F(q)], LAMBDA f : SumUpTo(f, lo, hi))

\* list.pop(index) on a sequence, with a 1-based index: the list without it.
PopAt(s, index) == [q \in 1..(Len(s) - 1) |-> IF q < index THEN s[q] ELSE s[q + 1]]

\* [e for e in row if e != '-']
StripGaps(row) == SelectSeq(row, LAMBDA e : e # GAP)

\* math.ceil(a / b) for integers a >= 0, b > 0.
CeilDiv(a, b) == (a + b - 1) \div b

\* base ** e for e >= 0.
RECURSIVE Pow(_, _)
Pow(base, e) == IF e = 0 THEN 1 ELSE base * Pow(base, e - 1)

----------------------------------------------------------------------------
(* Column scorer                                                           *)

\* "if gapPenalty < 0: gapPenalty *= -1"
CoerceGapPenalty(gapPenalty) == IF gapPenalty < 0 THEN -gapPenalty ELSE gapPenalty

\* The score of one pair of symbols of one column.
PairTerm(a, b, gapPenalty) ==
    IF (a = GAP) # (b = GAP) THEN -gapPenalty
    ELSE IF a # GAP /\ b # GAP THEN blosum50(a, b)
    ELSE 0

\* scoreAlignment(alignment, gapPenalty): sum of pairs over all columns.
scoreAlignment(alignment, gapPenalty) ==
    LET gp == CoerceGapPenalty(gapPenalty)
    IN SumRange(1, Len(alignment[1]), LAMBDA i :
         SumRange(1, Len(alignment) - 1, LAMBDA j :
           SumRange(j + 1, Len(alignment), LAMBDA k :
             PairTerm(alignment[j][i], alignment[k][i], gp))))

\* scoreColumns(x, y, i, j, gapPenalty): column i of x against column j of y.
scoreColumns(x, y, i, j, gapPenalty) ==
    LET gp == CoerceGapPenalty(gapPenalty)
    IN SumRange(1, Len(x), LAMBDA k :
         SumRange(1, Len(y), LAMBDA l : PairTerm(x[k][i], y[l][j], gp)))

----------------------------------------------------------------------------
(* Profile aligner                                                         *)

\* Number of columns of a profile: len(x[0]).
NumCols(x) == Len(x[1])

\* The branch and score chosen for a cell with i >= 1 and j >= 1:
\* ties are resolved diagonal, then top, then left.
Branch(diag, top, left) ==
    IF diag >= top /\ diag >= left THEN [f |-> diag, t |-> "D"]
    ELSE IF top >= diag /\ top >= left THEN [f |-> top, t |-> "T"]
    ELSE [f |-> left, t |-> "L"]

\* Cell with the top branch charged for the rows of x instead of those of y.
CellTopChargesRowsOfX(x, y, d, tab, i, j) ==
    IF i = 0 THEN [f |-> (-j) * d * Len(x), t |-> "L"]
    ELSE IF j = 0 THEN [f |-> (-i) * d * Len(y), t |-> "T"]
    ELSE LET diag == tab[<<i - 1, j - 1>>].f + scoreColumns(x, y, i, j, DefaultGapPenalty)
             top  == tab[<<i - 1, j>>].f - d * Len(x)
             left == tab[<<i, j - 1>>].f - d * Len(x)
         IN Branch(diag, top, left)

\* One pass of the body of the double loop that fills f and t: the cell (i, j),
\* given the cells filled before it (tab).
Cell(x, y, d, tab, i, j) ==
    IF i = 0 THEN [f |-> (-j) * d * Len(x), t |-> "L"]
    ELSE IF j = 0 THEN [f |-> (-i) * d * Len(y), t |-> "T"]
    ELSE LET diag == tab[<<i - 1, j - 1>>].f + scoreColumns(x, y, i, j, DefaultGapPenalty)
             top  == tab[<<i - 1, j>>].f - d * Len(y)
             left == tab[<<i, j - 1>>].f - d * Len(x)
         IN Branch(diag, top, left)

\* The weights matrix f and the traceback matrix t, filled row by row.
FillMatrices(x, y, d) ==
    LET lenX == NumCols(x)
        lenY == NumCols(y)
        RECURSIVE Fill(_, _)
        Fill(tab, c) ==
            IF c = (lenX + 1) * (lenY + 1) THEN tab
            ELSE LET i == c \div (lenY + 1)
                     j == c % (lenY + 1)
                 IN Bind(tab @@ (<<i, j>> :> Cell(x, y, d, tab, i, j)),
                         LAMBDA filled : Fill(filled, c + 1))
    IN Fill(<<>>, 0)

\* A column of '-' for every row of profile p, and column c of p.
GapColumn(p) == [k \in 1..Len(p) |-> GAP]
Column(p, c) == [k \in 1..Len(p) |-> p[k][c]]

\* rows[k].insert(0, col[k]) for every row k.
Prepend(rows, col) == [k \in 1..Len(rows) |-> <<col[k]>> \o rows[k]]

\* TraceStep with the last branch prepending a gap to the rows of y as well.
TraceStepLeftGapsBoth(x, y, tab, i, j) ==
    IF tab[<<i, j>>].t = "D"
    THEN [xcol |-> Column(x, i), ycol |-> Column(y, j), i |-> i - 1, j |-> j - 1]
    ELSE IF tab[<<i, j>>].t = "T"
    THEN [xcol |-> Column(x, i), ycol |-> GapColumn(y), i |-> i - 1, j |-> j]
    ELSE [xcol |-> GapColumn(x), ycol |-> GapColumn(y), i |-> i, j |-> j - 1]

\* One step of the traceback loop at (i, j): what is prepended to xp and yp,
\* and the next (i, j).
TraceStep(x, y, tab, i, j) ==
    IF tab[<<i, j>>].t = "D"
    THEN [xcol |-> Column(x, i), ycol |-> Column(y, j), i |-> i - 1, j |-> j - 1]
    ELSE IF tab[<<i, j>>].t = "T"
    THEN [xcol |-> Column(x, i), ycol |-> GapColumn(y), i |-> i - 1, j |-> j]
    ELSE [xcol |-> GapColumn(x), ycol |-> Column(y, j), i |-> i, j |-> j - 1]

\* The traceback loop "while i + j > 0".
Traceback(x, y, tab) ==
    LET RECURSIVE Walk(_, _, _, _)
        Walk(i, j, xp, yp) ==
            IF i + j > 0
            THEN Bind(TraceStep(x, y, tab, i, j), LAMBDA st :
                   Bind(Prepend(xp, st.xcol), LAMBDA xq :
                     Bind(Prepend(yp, st.ycol), LAMBDA yq : Walk(st.i, st.j, xq, yq))))
            ELSE [xp |-> xp, yp |-> yp]
    IN Walk(NumCols(x), NumCols(y), [k \in 1..Len(x) |-> <<>>], [k \in 1..Len(y) |-> <<>>])

\* alignProfiles(x, y, d): the returned (s, xp, yp).
alignProfiles(x, y, d) ==
    Bind(FillMatrices(x, y, d), LAMBDA tab :
      Bind(Traceback(x, y, tab), LAMBDA tr :
        [s |-> tab[<<NumCols(x), NumCols(y)>>].f, xp |-> tr.xp, yp |-> tr.yp]))

----------------------------------------------------------------------------
(* Refinement driver: the pure parts of iterate                            *)

\* Numbers that are floats in the source (t, m, y) are exact fractions here.
Frac(a, b) == [num |-> a, den |-> b]

\* The value m is replaced by when it is >= 1.
DefaultCooling == Frac(19, 20)

\* "if m >= 1: m = 0.95"
CoerceCooling(m) == IF m.num >= m.den THEN DefaultCooling ELSE m

\* The sign-carrying numerator and the positive denominator of t0 * m^e, the
\* value of t after e executions of "t = t * m".
TempNum(t0, m, e) == t0.num * Pow(m.num, e)
TempDen(t0, m, e) == t0.den * Pow(m.den, e)

\* The sign of t0 * m^e: -1, 0 or 1.
Sgn(v) == IF v < 0 THEN -1 ELSE IF v = 0 THEN 0 ELSE 1
TempSign(t0, m, e) == Sgn(t0.num) * Pow(Sgn(m.num), e)

\* "n = 0; while t > 1: n += 1; t = t * m": the n the loop ends with, which is
\* also the number of times it has multiplied t by m.
RECURSIVE CoolingSteps(_, _, _)
CoolingSteps(t0, m, e) ==
    IF TempNum(t0, m, e) > TempDen(t0, m, e) THEN CoolingSteps(t0, m, e + 1) ELSE e

\* numRealignedSequences for an alignment of rowCount rows and fraction y >= 0.
NumRealigned(rowCount, y) ==
    IF y.num = 0 THEN 1
    ELSE LET c == CeilDiv(rowCount * y.num, y.den)
         IN IF c = rowCount THEN c - 1 ELSE c

\* The loop "for i in range(numRealignedSequences)" that pops rows: every way
\* the random indices can fall. ids carries, for each row still in the list,
\* its position in the list the cycle started with.
RECURSIVE Removals(_, _, _, _)
Removals(al, ids, seqs, k) ==
    IF k <= 0 THEN {[err |-> "none", alignment |-> al, ids |-> ids, sequences |-> seqs]}
    ELSE IF Len(al) = 0
    THEN {[err |-> "ValueError", alignment |-> al, ids |-> ids, sequences |-> seqs]}
    ELSE UNION {Removals(PopAt(al, index), PopAt(ids, index),
                         Append(seqs, StripGaps(al[index])), k - 1) : index \in 1..Len(al)}

\* NullColumnIndexes taking a column for null as soon as one row has a gap in it.
NullColumnIndexesAnyGap(al) ==
    LET RECURSIVE Scan(_, _)
        Scan(i, found) ==
            IF i > NumCols(al) THEN found
            ELSE Scan(i + 1, IF \A j \in 1..Len(al) : al[j][i] # GAP
                             THEN found ELSE <<i>> \o found)
    IN Scan(1, <<>>)

\* nullColumnIndexes: the columns holding only gaps, last column first.
NullColumnIndexes(al) ==
    LET RECURSIVE Scan(_, _)
        Scan(i, found) ==
            IF i > NumCols(al) THEN found
            ELSE Scan(i + 1, IF \E j \in 1..Len(al) : al[j][i] # GAP
                             THEN found ELSE <<i>> \o found)
    IN Scan(1, <<>>)

\* "for index in nullColumnIndexes: for i in ...: alignment[i].pop(index)"
RECURSIVE DeleteColumns(_, _)
DeleteColumns(al, indexes) ==
    IF indexes = <<>> THEN al
    ELSE Bind([r \in 1..Len(al) |-> PopAt(al[r], Head(indexes))],
              LAMBDA popped : DeleteColumns(popped, Tail(indexes)))

\* "for sequence in sequences: s, alignment, y = alignProfiles(alignment,
\* [sequence], d); alignment.append(y[0])"
RECURSIVE Reinsert(_, _, _)
Reinsert(al, sequences, d) ==
    IF sequences = <<>> THEN al
    ELSE Bind(alignProfiles(al, <<Head(sequences)>>, d), LAMBDA r :
           Bind(Append(r.xp, r.yp[1]), LAMBDA merged : Reinsert(merged, Tail(sequences), d)))

\* prevProfile after the rows were popped and the null columns deleted:
\* list(alignment) copies the list but shares its rows, so the rows that stayed
\* have lost their null columns in prevProfile too.
SharedSnapshot(before, ids, trimmed) ==
    [r \in 1..Len(before) |->
        IF \E q \in 1..Len(ids) : ids[q] = r
        THEN trimmed[CHOOSE q \in 1..Len(ids) : ids[q] = r]
        ELSE before[r]]

\* Every outcome of the removal loop of a cycle that starts with alignment al.
RowRemovals(al, k) == Removals(al, [r \in 1..Len(al) |-> r], <<>>, k)

\* The exception lines 165-173 end with, or "none": random.randrange(0) raises
\* ValueError, and alignment[0] of an alignment left without rows IndexError.
RemovalError(rem) ==
    IF rem.err # "none" THEN rem.err
    ELSE IF Len(rem.alignment) = 0 THEN "IndexError"
    ELSE "none"

\* Lines 162-189 of a cycle whose removal loop ended with rem: the values of
\* the locals when newScore has been computed.
Realigned(al, rem, d) ==
    Bind(DeleteColumns(rem.alignment, NullColumnIndexes(rem.alignment)), LAMBDA trimmed :
      Bind(Reinsert(trimmed, rem.sequences, d), LAMBDA new :
        [alignment |-> new,
         prevProfile |-> SharedSnapshot(al, rem.ids, trimmed),
         prevScore |-> scoreAlignment(al, d),
         newScore |-> scoreAlignment(new, d)]))

\* Lines 162-189 for every outcome of the random indices that raises nothing.
CycleOutcomes(al, k, d) ==
    {Realigned(al, rem, d) : rem \in {r \in RowRemovals(al, k) : RemovalError(r) = "none"}}

\* "if counter >= 7"
StagnationLimit == 7

\* Lines 191-194: the stagnation counter after a cycle.
NextCounter(counter, newScore, prevScore) ==
    IF newScore = prevScore THEN counter + 1 ELSE 0

\* Lines 196-203: the outcomes of the acceptance test, TRUE for "accepted":
\* p = exp((newScore - prevScore) / t) is 1 for equal scores, lies strictly
\* between 0 and 1 for a worse score and t > 0 (the draw falls on either side),
\* and is >= 1 for t < 0. t = 0 raises ZeroDivisionError (see DividesByZero).
Acceptances(newScore, prevScore, tsign) ==
    IF newScore > prevScore \/ newScore = prevScore \/ tsign < 0 THEN {TRUE}
    ELSE {TRUE, FALSE}

\* Line 197 divides by t.
DividesByZero(newScore, prevScore, tsign) == newScore <= prevScore /\ tsign = 0

----------------------------------------------------------------------------
(* State                                                                   *)

VARIABLES
    pc,          \* iterate: "init", "loop", "done", "error"; alignProfiles: "call", "return"
    cfg,         \* the arguments iterate was called with: t, m, y, d
    input,       \* the alignment iterate was called with
    alignment,   \* iterate's alignment
    m,           \* iterate's m, after "if m >= 1"
    tExp,        \* iterate's t is cfg.t * m^tExp
    n,           \* iterate's n
    numRealignedSequences,
    counter,     \* cycles in a row whose score did not change
    i,           \* cycles completed (the index of the for loop)
    prevProfile, \* iterate's prevProfile
    prevScore,   \* iterate's prevScore
    newScore,    \* iterate's newScore
    s,           \* the score iterate returns
    err,         \* the exception iterate was left by, or "none"
    outcome,     \* history: "accepted" or "rejected" for the last cycle, else "none"
    profX,       \* alignProfiles: x
    profY,       \* alignProfiles: y
    gap,         \* alignProfiles: d
    result       \* alignProfiles: the returned (s, xp, yp)

iterVars == <<cfg, input, alignment, m, tExp, n, numRealignedSequences, counter, i,
              prevProfile, prevScore, newScore, s, err, outcome>>
alignVars == <<profX, profY, gap, result>>
vars == <<pc, iterVars, alignVars>>

\* The rectangular profiles of at most maxRows rows (at least one) and at most
\* maxCols columns.
Profiles(maxRows, maxCols) ==
    UNION {[1..r -> [1..c -> Symbols]] : r \in 1..maxRows, c \in 0..maxCols}

\* The calls of iterate that are explored: arguments t, m, y, d.
Call(t, cool, y, d) == [t |-> t, m |-> cool, y |-> y, d |-> d]
Calls ==
    { Call(Frac(9, 1), Frac(3, 4), Frac(0, 1), DefaultGapPenalty),
      Call(Frac(21, 20), Frac(1, 1), Frac(1, 1), DefaultGapPenalty),
      Call(Frac(10, 1), Frac(0, 1), Frac(1, 2), DefaultGapPenalty),
      Call(Frac(10, 1), Frac(-1, 2), Frac(0, 1), DefaultGapPenalty),
      Call(Frac(2, 1), Frac(1, 2), Frac(3, 2), DefaultGapPenalty),
      Call(Frac(1, 1), Frac(1, 2), Frac(0, 1), DefaultGapPenalty) }

\* The gap penalties alignProfiles is called with directly.
GapPenalties == {-8, 0, 1, 8}

NoResult == [s |-> 0, xp |-> <<>>, yp |-> <<>>]

IdleIterate ==
    /\ cfg = Call(Frac(1, 1), Frac(1, 2), Frac(0, 1), DefaultGapPenalty)
    /\ input = <<>>
    /\ alignment = <<>>
    /\ m = cfg.m
    /\ tExp = 0
    /\ n = 0
    /\ numRealignedSequences = 0
    /\ counter = 0
    /\ i = 0
    /\ prevProfile = <<>>
    /\ prevScore = 0
    /\ newScore = 0
    /\ s = 0
    /\ err = "none"
    /\ outcome = "none"

IdleAlign ==
    /\ profX = <<>>
    /\ profY = <<>>
    /\ gap = 0
    /\ result = NoResult

----------------------------------------------------------------------------
(* iterate                                                                 *)

\* iterate(alignment, t, m, y, d) is called.
Init ==
    /\ pc = "init"
    /\ cfg \in Calls
    /\ input \in Profiles(MaxRows, MaxCols)
    /\ alignment = input
    /\ m = cfg.m
    /\ tExp = 0
    /\ n = 0
    /\ numRealignedSequences = 0
    /\ counter = 0
    /\ i = 0
    /\ prevProfile = <<>>
    /\ prevScore = 0
    /\ newScore = 0
    /\ s = 0
    /\ err = "none"
    /\ outcome = "none"
    /\ IdleAlign

\* Lines 134-153: m is coerced, numRealignedSequences and n are computed; the
\* loop that counts n multiplies t itself by m.
Start ==
    /\ pc = "init"
    /\ pc' = "loop"
    /\ m' = CoerceCooling(cfg.m)
    /\ numRealignedSequences' = NumRealigned(Len(alignment), cfg.y)
    /\ counter' = 0
    /\ n' = CoolingSteps(cfg.t, m', 0)
    /\ tExp' = n'
    /\ UNCHANGED <<cfg, input, alignment, i, prevProfile, prevScore, newScore, s, err,
                   outcome, alignVars>>

\* InLoop without the end of range(n).
InLoopUnbounded == pc = "loop" /\ counter < StagnationLimit

\* The for loop goes on: range(n) is not exhausted and "if counter >= 7" fails.
InLoop == pc = "loop" /\ i < n /\ counter < StagnationLimit

\* One pass of the for loop that runs to "t = t * m" (lines 157-204).
Cycle ==
    /\ InLoop
    /\ \E o \in CycleOutcomes(alignment, numRealignedSequences, cfg.d) :
         /\ ~DividesByZero(o.newScore, o.prevScore, TempSign(cfg.t, m, tExp))
         /\ \E accepted \in Acceptances(o.newScore, o.prevScore, TempSign(cfg.t, m, tExp)) :
              /\ alignment' = o.alignment
              /\ newScore' = o.newScore
              /\ counter' = NextCounter(counter, o.newScore, o.prevScore)
              /\ prevProfile' = IF accepted THEN o.alignment ELSE o.prevProfile
              /\ prevScore' = IF accepted THEN o.newScore ELSE o.prevScore
              /\ outcome' = IF accepted THEN "accepted" ELSE "rejected"
    /\ tExp' = tExp + 1
    /\ i' = i + 1
    /\ UNCHANGED <<pc, cfg, input, m, n, numRealignedSequences, s, err, alignVars>>

\* A pass of the for loop whose removal of rows raises (lines 162-173): the
\* rows popped so far are gone from the alignment.
CycleRaisesInRemoval ==
    /\ InLoop
    /\ \E rem \in RowRemovals(alignment, numRealignedSequences) :
         /\ RemovalError(rem) # "none"
         /\ err' = RemovalError(rem)
         /\ alignment' = rem.alignment
    /\ prevProfile' = alignment
    /\ prevScore' = scoreAlignment(alignment, cfg.d)
    /\ pc' = "error"
    /\ outcome' = "none"
    /\ UNCHANGED <<cfg, input, m, tExp, n, numRealignedSequences, counter, i, newScore, s,
                   alignVars>>

\* A pass of the for loop that raises ZeroDivisionError in line 197: t is 0
\* and the new score is not better. The counter was updated before.
CycleDividesByZero ==
    /\ InLoop
    /\ TempSign(cfg.t, m, tExp) = 0
    /\ \E o \in CycleOutcomes(alignment, numRealignedSequences, cfg.d) :
         /\ DividesByZero(o.newScore, o.prevScore, TempSign(cfg.t, m, tExp))
         /\ alignment' = o.alignment
         /\ newScore' = o.newScore
         /\ counter' = NextCounter(counter, o.newScore, o.prevScore)
         /\ prevProfile' = o.prevProfile
         /\ prevScore' = o.prevScore
    /\ err' = "ZeroDivisionError"
    /\ pc' = "error"
    /\ outcome' = "none"
    /\ UNCHANGED <<cfg, input, m, tExp, n, numRealignedSequences, i, s, alignVars>>

\* The for loop ends (range(n) is exhausted, or "if counter >= 7: break") and
\* iterate returns (scoreAlignment(alignment, d), alignment).
Return ==
    /\ pc = "loop"
    /\ (i >= n \/ counter >= StagnationLimit)
    /\ pc' = "done"
    /\ s' = scoreAlignment(alignment, cfg.d)
    /\ UNCHANGED <<cfg, input, alignment, m, tExp, n, numRealignedSequences, counter, i,
                   prevProfile, prevScore, newScore, err, outcome, alignVars>>

Next == Start \/ Cycle \/ CycleRaisesInRemoval \/ CycleDividesByZero \/ Return

Spec == Init /\ [][Next]_vars

----------------------------------------------------------------------------
(* alignProfiles called on its own                                         *)

InitAlign ==
    /\ pc = "call"
    /\ profX \in Profiles(MaxProfRows, MaxProfCols)
    /\ profY \in Profiles(MaxProfRows, MaxProfCols)
    /\ gap \in GapPenalties
    /\ result = NoResult
    /\ IdleIterate

\* alignProfiles(profX, profY, gap) runs and returns.
Align ==
    /\ pc = "call"
    /\ pc' = "return"
    /\ result' = alignProfiles(profX, profY, gap)
    /\ UNCHANGED <<profX, profY, gap, iterVars>>

NextAlign == Align

SpecAlign == InitAlign /\ [][NextAlign]_vars

----------------------------------------------------------------------------
(* Vocabulary of the properties                                            *)

Min(a, b) == IF a <= b THEN a ELSE b
Max(a, b) == IF a >= b THEN a ELSE b

\* Every row of al has the length of the first one.
Rectangular(al) == \A k \in 1..Len(al) : Len(al[k]) = Len(al[1])

\* The multiset of the rows of al without their gaps: each gap-free row with
\* the number of rows of al it comes from.
StrippedRows(al) ==
    [r \in {StripGaps(al[k]) : k \in 1..Len(al)} |->
        Cardinality({k \in 1..Len(al) : StripGaps(al[k]) = r})]

\* Every column of profile p holds a symbol that is not a gap.
NoNullColumn(p) == \A c \in 1..NumCols(p) : \E k \in 1..Len(p) : p[k][c] # GAP

\* A single row without gaps.
BareSequence(p) == Len(p) = 1 /\ \A c \in 1..Len(p[1]) : p[1][c] # GAP

\* The cross-profile sum-of-pairs score of xp against yp with gap penalty d:
\* column c of xp against column c of yp, for every column.
CrossScore(xp, yp, d) ==
    SumRange(1, NumCols(xp), LAMBDA c : scoreColumns(xp, yp, c, c, d))

\* The global pairwise alignments of a sequence of a symbols with one of b
\* symbols, each as its sequence of columns: "D" pairs the next two symbols,
\* "T" puts the next symbol of the first against a gap, "L" the next symbol of
\* the second against a gap.
RECURSIVE Paths(_, _)
Paths(a, b) ==
    IF a = 0 /\ b = 0 THEN {<<>>}
    ELSE (IF a > 0 /\ b > 0 THEN {<<"D">> \o q : q \in Paths(a - 1, b - 1)} ELSE {})
         \cup (IF a > 0 THEN {<<"T">> \o q : q \in Paths(a - 1, b)} ELSE {})
         \cup (IF b > 0 THEN {<<"L">> \o q : q \in Paths(a, b - 1)} ELSE {})

\* The score of one such alignment of u and v: the substitution cost of every
\* pair, minus d for every gap column.
RECURSIVE PathScore(_, _, _, _)
PathScore(path, u, v, d) ==
    IF path = <<>> THEN 0
    ELSE IF Head(path) = "D"
    THEN blosum50(Head(u), Head(v)) + PathScore(Tail(path), Tail(u), Tail(v), d)
    ELSE IF Head(path) = "T" THEN PathScore(Tail(path), Tail(u), v, d) - d
    ELSE PathScore(Tail(path), u, Tail(v), d) - d

\* The best score over all global pairwise alignments of u and v.
BestPairwiseScore(u, v, d) ==
    LET scores == {PathScore(q, u, v, d) : q \in Paths(Len(u), Len(v))}
    IN CHOOSE best \in scores : \A other \in scores : other <= best

\* The cells the traceback of alignProfiles(x, y, d) visits.
TracebackCells(x, y, d) ==
    LET tab == FillMatrices(x, y, d)
        RECURSIVE Visit(_, _)
        Visit(a, b) ==
            IF a + b > 0
            THEN LET st == TraceStep(x, y, tab, a, b)
                 IN {<<a, b>>} \cup Visit(st.i, st.j)
            ELSE {}
    IN Visit(NumCols(x), NumCols(y))

\* In cell (a, b) of alignProfiles(x, y, d) top and left tie above diag.
TopLeftTie(x, y, d, a, b) ==
    /\ a > 0
    /\ b > 0
    /\ LET tab  == FillMatrices(x, y, d)
           diag == tab[<<a - 1, b - 1>>].f + scoreColumns(x, y, a, b, DefaultGapPenalty)
           top  == tab[<<a - 1, b>>].f - d * Len(y)
           left == tab[<<a, b - 1>>].f - d * Len(x)
       IN top = left /\ top > diag

\* The traceback of alignProfiles(x, y, d) meets no tie of top and left.
NoTieOnTraceback(x, y, d) ==
    \A c \in TracebackCells(x, y, d) : ~TopLeftTie(x, y, d, c[1], c[2])

\* iterate has returned or raised.
Terminated == pc \in {"done", "error"}

\* The configured cooling factor lies strictly between 0 and 1.
CoolingInRange == cfg.m.num > 0 /\ cfg.m.num < cfg.m.den

\* The configured fraction lies between 0 and 1.
FractionInRange == cfg.y.num >= 0 /\ cfg.y.num <= cfg.y.den

----------------------------------------------------------------------------
(* Properties of alignProfiles (checked under SpecAlign)                   *)

\* C5: for two single-row, gap-free profiles and any gap penalty d, the score
\* alignProfiles returns is the best score over all global pairwise alignments
\* (substitution costs minus d per gap column), and the two returned rows are
\* an alignment of the two sequences whose scoreAlignment with penalty d is
\* that score.
C5_ReducesToNeedlemanWunsch ==
    (pc = "return" /\ BareSequence(profX) /\ BareSequence(profY)) =>
        /\ result.s = BestPairwiseScore(profX[1], profY[1], gap)
        /\ Len(result.xp[1]) = Len(result.yp[1])
        /\ StripGaps(result.xp[1]) = profX[1]
        /\ StripGaps(result.yp[1]) = profY[1]
        /\ scoreAlignment(<<result.xp[1], result.yp[1]>>, gap) = result.s

\* What of C5 holds: the same for the gap penalties d >= 0. (For d < 0
\* scoreAlignment flips the sign of d and alignProfiles does not.)
C5_NonNegativePenalty ==
    gap >= 0 => C5_ReducesToNeedlemanWunsch

\* C6 as stated: alignProfiles(Y, X, d) returns the score of
\* alignProfiles(X, Y, d) and the same two row groups, swapped.
C6_SymmetricUnderSwap ==
    pc = "return" =>
        LET swapped == alignProfiles(profY, profX, gap)
        IN /\ swapped.s = result.s
           /\ swapped.yp = result.xp
           /\ swapped.xp = result.yp

\* C6 as amended: the two calls return the same score, and the same row groups
\* swapped whenever the traceback of alignProfiles(X, Y, d) meets no cell in
\* which top and left tie above diag.
C6_SymmetricScore ==
    pc = "return" =>
        LET swapped == alignProfiles(profY, profX, gap)
        IN /\ swapped.s = result.s
           /\ NoTieOnTraceback(profX, profY, gap) =>
                (swapped.yp = result.xp /\ swapped.xp = result.yp)

\* C6, witness: a call on a two-row profile whose traceback meets no tie and
\* inserts a gap column into X.
C6_Witness ==
    /\ pc = "return"
    /\ Len(profX) = 2
    /\ NoTieOnTraceback(profX, profY, gap)
    /\ NumCols(result.xp) > NumCols(profX)
    /\ NumCols(profX) > 0

\* C7: if every column of X and every column of Y holds a symbol, so does every
\* column of the rows of X' together with the rows of Y'.
C7_NoAllGapColumn ==
    (pc = "return" /\ NoNullColumn(profX) /\ NoNullColumn(profY)) =>
        /\ NumCols(result.xp) = NumCols(result.yp)
        /\ NoNullColumn(result.xp \o result.yp)

\* C7, witness: a call on two profiles with gaps in their rows, but no null
\* column, that inserts gap columns on both sides.
C7_Witness ==
    /\ pc = "return"
    /\ NoNullColumn(profX)
    /\ NoNullColumn(profY)
    /\ \E k \in 1..Len(profX) : \E c \in 1..NumCols(profX) : profX[k][c] = GAP
    /\ NumCols(result.xp) > NumCols(profX)
    /\ NumCols(result.yp) > NumCols(profY)

\* C10: for every gap penalty d >= 0 the score alignProfiles returns is the
\* cross-profile sum-of-pairs score, with penalty d, of the rows it returns.
C10_ScoreIsCrossScore ==
    (pc = "return" /\ gap >= 0) => result.s = CrossScore(result.xp, result.yp, gap)

----------------------------------------------------------------------------
(* Properties of iterate (checked under Spec)                              *)

\* C1: a cycle whose candidate is rejected leaves, as the alignment of the
\* next cycle (and of the return), the alignment the cycle started with.
C1_RejectionRestoresSnapshot ==
    [][(pc = "loop" /\ i' = i + 1 /\ outcome' = "rejected") => alignment' = alignment]_vars

\* C2: the acceptance test of cycle c uses t = initial temperature * m^(c-1):
\* when c - 1 cycles are completed, t has been multiplied by m c - 1 times, so
\* the first cycle runs at the configured initial temperature.
C2_TemperatureSchedule ==
    pc = "loop" => tExp = i

\* C3: for every row count and fraction y the number of rows removed per cycle
\* is 1 for y = 0 and else ceil(rowCount * y) capped to rowCount - 1, and it
\* is at most rowCount - 1.
C3_NeverRemovesEveryRow ==
    pc # "init" =>
        /\ numRealignedSequences =
              IF cfg.y.num = 0 THEN 1
              ELSE Min(CeilDiv(Len(input) * cfg.y.num, cfg.y.den), Len(input) - 1)
        /\ numRealignedSequences <= Len(input) - 1

\* C4, the part that is a state predicate: for a cooling factor 0 < m < 1, n is
\* the number of multiplications by m that bring the initial temperature to
\* <= 1, at most n cycles are run, the counter is at most 7, and iterate
\* returns before n cycles only with the counter at 7.
C4_LoopBound ==
    (CoolingInRange /\ pc # "init") =>
        /\ TempNum(cfg.t, cfg.m, n) <= TempDen(cfg.t, cfg.m, n)
        /\ \A k \in 0..(n - 1) : TempNum(cfg.t, cfg.m, k) > TempDen(cfg.t, cfg.m, k)
        /\ i <= n
        /\ counter <= StagnationLimit
        /\ (pc = "done" /\ i < n) => counter = StagnationLimit

\* C4, the counter: a cycle whose new score is the score the cycle started
\* with adds one to it, any other cycle resets it to 0.
C4_CounterCounts ==
    [][(CoolingInRange /\ i' = i + 1) =>
          counter' = IF newScore' = scoreAlignment(alignment, cfg.d)
                     THEN counter + 1 ELSE 0]_vars

\* C4, progress: every step of the loop completes a cycle, of which there are
\* at most n, or leaves iterate.
C4_Progress ==
    [][(CoolingInRange /\ pc = "loop") =>
          ((pc' = "loop" /\ i' = i + 1) \/ Terminated')]_vars

\* C4: for every initial temperature, cooling factor 0 < m < 1 and outcome of
\* the random draws, iterate terminates after at most n cycles (each step of
\* the loop is one of at most n cycles or the last one), earlier only when the
\* stagnation counter has reached 7, which it never exceeds.
C4_BoundedTermination ==
    /\ []C4_LoopBound
    /\ C4_CounterCounts
    /\ C4_Progress

\* C4, witness: iterate has returned before n cycles, the counter at 7.
C4_Witness ==
    /\ CoolingInRange
    /\ pc = "done"
    /\ i < n
    /\ counter = StagnationLimit

\* C8: a cooling factor m <= 0 is replaced by the default 0.95 before the
\* schedule is computed, and the run is not left by a division by t = 0.
C8_NonPositiveCoolingCoerced ==
    (pc # "init" /\ cfg.m.num <= 0) =>
        /\ m = DefaultCooling
        /\ err # "ZeroDivisionError"

\* C9: for a rectangular input of at least two rows and a fraction
\* 0 <= y <= 1, after every cycle and at the return the alignment is
\* rectangular, has the rows count of the input, and its rows without their
\* gaps are, as a multiset, those of the input.
C9_AlignmentStaysValid ==
    (Len(input) >= 2 /\ FractionInRange) =>
        /\ Rectangular(alignment)
        /\ Len(alignment) = Len(input)
        /\ StrippedRows(alignment) = StrippedRows(input)

\* C9, witness: iterate has returned after a rejected cycle, with an alignment
\* of three rows that has more columns than the input had.
C9_Witness ==
    /\ pc = "done"
    /\ Len(input) = 3
    /\ FractionInRange
    /\ outcome = "rejected"
    /\ NumCols(alignment) > NumCols(input)

====
